---- MODULE Spec2Model ----
(***************************************************************************)
(* A model of combine_chats.py: the message model and its tolerance        *)
(* equality, the sequence aligner combine_chats, the duplicate detector    *)
(* check_for_duplicates and the dialect parser Chat.from_file.             *)
(*                                                                         *)
(* Python values are modelled as follows.  A str is a sequence of          *)
(* characters (one-character strings).  Optional[T] is a sequence of       *)
(* length at most one: None is << >>, a value v is << v >>.  A datetime is *)
(* a number of seconds on a fixed time line, a timedelta a number of       *)
(* seconds.  An object is a record whose field cls names its class.        *)
(* List indices are 0-based as in the code; At(list, k) reads list[k].     *)
(***************************************************************************)
EXTENDS Integers, Sequences, FiniteSets, TLC

VARIABLES
    \* combine_chats
    chat1, chat2,       \* the two arguments (lists of messages)
    i, j,               \* the two cursors
    messages,           \* the output list
    src,                \* history: for each output message, the positions
                        \* <<ia, ib>> (1-based, 0 for none) it was built from
    spin,               \* history: parity of the number of iterations of the
                        \* while loop that ended with nothing done
    pc,                 \* "loop" | "done" | "idle"
    \* == on messages and on Media
    lhs, rhs,           \* the operands of the last comparison
    eqres,              \* << >> before the comparison, << result >> after
    \* check_for_duplicates
    chat,               \* the argument
    dk,                 \* number of messages the for loop has consumed
    seen_text, seen_media,
    duplicated_text, duplicated_media,   \* Counters, as functions key -> count
    dpc,                \* "scan" | "done" | "idle"
    \* Chat.from_file
    lines,              \* the file, one raw line per element
    available_files,    \* names of the files of the directory
    ln,                 \* number of lines consumed
    first, version,     \* version is << >> while the local is unbound
    senders,
    pmessages,          \* the local list `messages` of from_file
    ppc,                \* "lines" | "done" | "error" | "idle"
    perr,               \* the exception that left from_file, "" for none
    \* Chat.to_version
    rchat,              \* the messages of the Chat that is rendered
    rver                \* the version it is rendered to, "" for none

alignerVars == <<chat1, chat2, i, j, messages, src, spin, pc>>
eqVars      == <<lhs, rhs, eqres>>
dupVars     == <<chat, dk, seen_text, seen_media, duplicated_text, duplicated_media, dpc>>
parserVars  == <<lines, available_files, ln, first, version, senders, pmessages, ppc, perr>>
renderVars  == <<rchat, rver>>
vars        == <<alignerVars, eqVars, dupVars, parserVars, renderVars>>

----------------------------------------------------------------------------
(* Python helpers *)

None == << >>
Some(v) == << v >>
IsNone(o) == o = << >>
Val(o) == o[1]

At(list, k) == list[k + 1]

Abs(n) == IF n < 0 THEN -n ELSE n
Max(a, b) == IF a >= b THEN a ELSE b
Min(a, b) == IF a <= b THEN a ELSE b

\* timedelta(days=1), in seconds
Day == 86400

----------------------------------------------------------------------------
(* The message model *)

MediaTypes == {"PHOTO", "VIDEO", "AUDIO", "OTHER"}

Media(media_type, path, caption) ==
    [cls |-> "Media", media_type |-> media_type, path |-> path, caption |-> caption]

TextMessage(timestamp, sender, content) ==
    [cls |-> "TextMessage", timestamp |-> timestamp, sender |-> sender, content |-> content]

MediaMessage(timestamp, sender, content) ==
    [cls |-> "MediaMessage", timestamp |-> timestamp, sender |-> sender, content |-> content]

SystemMessage(timestamp, sender, content) ==
    [cls |-> "SystemMessage", timestamp |-> timestamp, sender |-> sender, content |-> content]

isinstance(obj, class) == obj.cls = class

\* Media.__eq__ with the caption test dropped
Media_eq_NoCaption(self, other) ==
    IF ~isinstance(other, "Media") THEN FALSE
    ELSE IF self.media_type # "OTHER" /\ other.media_type # "OTHER"
            /\ self.media_type # other.media_type THEN FALSE
    ELSE TRUE

\* Media.__eq__
Media_eq(self, other) ==
    IF ~isinstance(other, "Media") THEN FALSE
    ELSE IF self.media_type # "OTHER" /\ other.media_type # "OTHER"
            /\ self.media_type # other.media_type THEN FALSE
    ELSE IF ~IsNone(self.caption) /\ ~IsNone(other.caption)
            /\ self.caption # other.caption THEN FALSE
    ELSE TRUE

\* TextMessage.__eq__ with a strict tolerance
TextMessage_eq_Strict(self, other) ==
    IF ~isinstance(other, "TextMessage") THEN FALSE
    ELSE /\ Abs(self.timestamp - other.timestamp) < Day
         /\ self.sender = other.sender
         /\ self.content = other.content

\* TextMessage.__eq__
TextMessage_eq(self, other) ==
    IF ~isinstance(other, "TextMessage") THEN FALSE
    ELSE /\ Abs(self.timestamp - other.timestamp) <= Day
         /\ self.sender = other.sender
         /\ self.content = other.content

\* MediaMessage.__eq__
MediaMessage_eq(self, other) ==
    IF ~isinstance(other, "MediaMessage") THEN FALSE
    ELSE /\ Abs(self.timestamp - other.timestamp) <= Day
         /\ self.sender = other.sender
         /\ Media_eq(self.content, other.content)

\* SystemMessage.__eq__
SystemMessage_eq(self, other) ==
    IF ~isinstance(other, "SystemMessage") THEN FALSE
    ELSE /\ Abs(self.timestamp - other.timestamp) <= Day
         /\ self.sender = other.sender
         /\ self.content = other.content

\* a == b: the __eq__ of a's class
PyEq(a, b) ==
    CASE isinstance(a, "TextMessage")   -> TextMessage_eq(a, b)
      [] isinstance(a, "MediaMessage")  -> MediaMessage_eq(a, b)
      [] isinstance(a, "SystemMessage") -> SystemMessage_eq(a, b)
      [] isinstance(a, "Media")         -> Media_eq(a, b)

\* a != b: the default __ne__ negates __eq__
PyNe(a, b) == ~PyEq(a, b)

----------------------------------------------------------------------------
(* combine_chats *)

MAX_SCRAMBLED_MESSAGES == 5

\* len(chat)
len(list) == Len(list)

\* list[k:]
SliceFrom(list, k) == SubSeq(list, k + 1, Len(list))

\* the tuples of itertools.permutations over the elements of S, each after
\* the prefix pre
RECURSIVE PermsFrom(_, _)
PermsFrom(pre, S) ==
    IF S = {} THEN {pre}
    ELSE UNION {PermsFrom(Append(pre, x), S \ {x}) : x \in S}

\* itertools.permutations(range(n), n), as the set of the tuples it yields
PermsByN == [n \in 2..MAX_SCRAMBLED_MESSAGES |-> PermsFrom(<< >>, 0..(n - 1))]

\* permutations yields its tuples in lexicographic order: p comes before q
LexLess(p, q) ==
    \E k \in 1..Len(p) : p[k] < q[k] /\ \A m \in 1..(k - 1) : p[m] = q[m]

\* the combos of permutations(rest) after the prefix pre for which the
\* all(...) of the window test is true: chat1[i0+c] == chat2[j0+k] for every
\* k, c of enumerate(combo)
RECURSIVE CombosFrom(_, _, _, _)
CombosFrom(pre, rest, i0, j0) ==
    IF rest = {} THEN {pre}
    ELSE UNION {CombosFrom(Append(pre, c), rest \ {c}, i0, j0) :
                    c \in {d \in rest : PyEq(At(chat1, i0 + d), At(chat2, j0 + Len(pre)))}}

\* the combos of permutations(range(n), n) that pass the window test
WindowCombos(i0, j0, n) == CombosFrom(<< >>, 0..(n - 1), i0, j0)

\* range(2, MAX_SCRAMBLED_MESSAGES+1) cut at 4
WindowSizesTo4 == 2..(MAX_SCRAMBLED_MESSAGES - 1)

\* range(2, MAX_SCRAMBLED_MESSAGES+1)
WindowSizes == 2..MAX_SCRAMBLED_MESSAGES

\* the num_to_check at which the window search finds a match, 0 if it finds
\* none: the for loop breaks at the first size that does not fit
FoundWindow(i0, j0) ==
    LET hits == {n \in WindowSizes :
                    /\ i0 + n <= len(chat1)
                    /\ j0 + n <= len(chat2)
                    /\ WindowCombos(i0, j0, n) # {}}
    IN  IF hits = {} THEN 0 ELSE CHOOSE n \in hits : \A m \in hits : n <= m

\* the first combo, in the order of permutations, that matches
FirstCombo(i0, j0, n) ==
    LET S == WindowCombos(i0, j0, n)
    IN  CHOOSE p \in S : \A q \in S : p = q \/ LexLess(p, q)

\* the merge of a matched pair that keeps chat1's caption only
MergeOwnCaption(m1, m2) ==
    IF isinstance(m1, "MediaMessage")
    THEN MediaMessage(m1.timestamp, m1.sender,
            Media(IF m1.content.media_type # "OTHER" THEN m1.content.media_type
                                                      ELSE m2.content.media_type,
                  IF ~IsNone(m1.content.path) THEN m1.content.path ELSE m2.content.path,
                  m1.content.caption))
    ELSE m1

\* the message appended for a matched pair m1 (of chat1), m2 (of chat2)
Merge(m1, m2) ==
    IF isinstance(m1, "MediaMessage")
    THEN MediaMessage(m1.timestamp, m1.sender,
            Media(IF m1.content.media_type # "OTHER" THEN m1.content.media_type
                                                      ELSE m2.content.media_type,
                  IF ~IsNone(m1.content.path) THEN m1.content.path ELSE m2.content.path,
                  IF ~IsNone(m1.content.caption) THEN m1.content.caption
                                                 ELSE m2.content.caption))
    ELSE m1

\* while i < len(chat1) and j < len(chat2)
LoopCond == i < len(chat1) /\ j < len(chat2)

\* the condition of `if m1 == m2`
DirectCond == PyEq(At(chat1, i), At(chat2, j))

diff1 == At(chat1, i).timestamp - At(chat1, i - 1).timestamp
diff2 == At(chat2, j).timestamp - At(chat2, j - 1).timestamp

\* the first skew test, reached when no window matched and i > 0 and j > 0
Skew2Cond == diff1 > diff2 /\ (diff1 - diff2) > Day
\* the elif skew test
Skew1Cond == ~Skew2Cond /\ diff2 > diff1 /\ (diff2 - diff1) > Day

\* an iteration that reaches the end of the loop body with nothing done
StallCond ==
    /\ LoopCond
    /\ ~DirectCond
    /\ FoundWindow(i, j) = 0
    /\ ~(i > 0 /\ j > 0 /\ (Skew2Cond \/ Skew1Cond))

\* the value of j when `while j < len(chat2) and chat2[j] != chat1[i]` ends
RECURSIVE Drain2End(_)
Drain2End(jj) ==
    IF jj < len(chat2) /\ PyNe(At(chat2, jj), At(chat1, i))
    THEN Drain2End(jj + 1) ELSE jj

\* the value of i when `while i < len(chat1) and chat2[j] != chat1[i]` ends
RECURSIVE Drain1End(_)
Drain1End(ii) ==
    IF ii < len(chat1) /\ PyNe(At(chat2, j), At(chat1, ii))
    THEN Drain1End(ii + 1) ELSE ii

\* lines 335-346 with the cursor of chat2 left in place
DirectMatchKeepJ ==
    /\ pc = "loop" /\ LoopCond
    /\ DirectCond
    /\ messages' = Append(messages, Merge(At(chat1, i), At(chat2, j)))
    /\ src' = Append(src, <<i + 1, j + 1>>)
    /\ i' = i + 1
    /\ j' = j
    /\ UNCHANGED <<chat1, chat2, spin, pc>>
    /\ UNCHANGED <<eqVars, dupVars, parserVars, renderVars>>

\* lines 335-346 with both messages of the pair appended
DirectMatchAppendBoth ==
    /\ pc = "loop" /\ LoopCond
    /\ DirectCond
    /\ messages' = messages \o <<At(chat1, i), At(chat2, j)>>
    /\ src' = src \o << <<i + 1, 0>>, <<0, j + 1>> >>
    /\ i' = i + 1
    /\ j' = j + 1
    /\ UNCHANGED <<chat1, chat2, spin, pc>>
    /\ UNCHANGED <<eqVars, dupVars, parserVars, renderVars>>

\* lines 335-346 with the merged message written into chat1 as well
DirectMatchInPlace ==
    /\ pc = "loop" /\ LoopCond
    /\ DirectCond
    /\ messages' = Append(messages, Merge(At(chat1, i), At(chat2, j)))
    /\ chat1' = [chat1 EXCEPT ![i + 1] = Merge(At(chat1, i), At(chat2, j))]
    /\ src' = Append(src, <<i + 1, j + 1>>)
    /\ i' = i + 1
    /\ j' = j + 1
    /\ UNCHANGED <<chat2, spin, pc>>
    /\ UNCHANGED <<eqVars, dupVars, parserVars, renderVars>>

\* lines 335-346: direct match
DirectMatch ==
    /\ pc = "loop" /\ LoopCond
    /\ DirectCond
    /\ messages' = Append(messages, Merge(At(chat1, i), At(chat2, j)))
    /\ src' = Append(src, <<i + 1, j + 1>>)
    /\ i' = i + 1
    /\ j' = j + 1
    /\ UNCHANGED <<chat1, chat2, spin, pc>>
    /\ UNCHANGED <<eqVars, dupVars, parserVars, renderVars>>

\* lines 348-373 with the merged messages appended in the order of chat1
WindowMatchChat1Order ==
    /\ pc = "loop" /\ LoopCond
    /\ ~DirectCond
    /\ FoundWindow(i, j) # 0
    /\ LET n     == FoundWindow(i, j)
           combo == FirstCombo(i, j, n)
           at(c) == CHOOSE k \in 1..n : combo[k] = c
       IN  /\ messages' = messages \o
                  [c \in 1..n |-> Merge(At(chat1, i + c - 1), At(chat2, j + at(c - 1) - 1))]
           /\ src' = src \o [c \in 1..n |-> <<i + c, j + at(c - 1)>>]
           /\ i' = i + n
           /\ j' = j + n
    /\ UNCHANGED <<chat1, chat2, spin, pc>>
    /\ UNCHANGED <<eqVars, dupVars, parserVars, renderVars>>

\* lines 348-373: a window of num_to_check messages matches out of order
WindowMatch ==
    /\ pc = "loop" /\ LoopCond
    /\ ~DirectCond
    /\ FoundWindow(i, j) # 0
    /\ LET n     == FoundWindow(i, j)
           combo == FirstCombo(i, j, n)
       IN  /\ messages' = messages \o
                  [k \in 1..n |-> Merge(At(chat1, i + combo[k]), At(chat2, j + k - 1))]
           /\ src' = src \o [k \in 1..n |-> <<i + combo[k] + 1, j + k>>]
           /\ i' = i + n
           /\ j' = j + n
    /\ UNCHANGED <<chat1, chat2, spin, pc>>
    /\ UNCHANGED <<eqVars, dupVars, parserVars, renderVars>>

\* lines 374-382 with the list of the longer gap, chat1, drained
SkewDrain2LongSide ==
    /\ pc = "loop" /\ LoopCond
    /\ ~DirectCond
    /\ FoundWindow(i, j) = 0
    /\ i > 0 /\ j > 0
    /\ Skew2Cond
    /\ LET e == Drain1End(i)
       IN  /\ messages' = messages \o SubSeq(chat1, i + 1, e)
           /\ src' = src \o [k \in 1..(e - i) |-> <<i + k, 0>>]
           /\ i' = e
    /\ UNCHANGED <<chat1, chat2, j, spin, pc>>
    /\ UNCHANGED <<eqVars, dupVars, parserVars, renderVars>>

\* lines 374-382: chat1's gap is the longer one, chat2 is drained
SkewDrain2 ==
    /\ pc = "loop" /\ LoopCond
    /\ ~DirectCond
    /\ FoundWindow(i, j) = 0
    /\ i > 0 /\ j > 0
    /\ Skew2Cond
    /\ LET e == Drain2End(j)
       IN  /\ messages' = messages \o SubSeq(chat2, j + 1, e)
           /\ src' = src \o [k \in 1..(e - j) |-> <<0, j + k>>]
           /\ j' = e
    /\ UNCHANGED <<chat1, chat2, i, spin, pc>>
    /\ UNCHANGED <<eqVars, dupVars, parserVars, renderVars>>

\* lines 383-388: chat2's gap is the longer one, chat1 is drained
SkewDrain1 ==
    /\ pc = "loop" /\ LoopCond
    /\ ~DirectCond
    /\ FoundWindow(i, j) = 0
    /\ i > 0 /\ j > 0
    /\ Skew1Cond
    /\ LET e == Drain1End(i)
       IN  /\ messages' = messages \o SubSeq(chat1, i + 1, e)
           /\ src' = src \o [k \in 1..(e - i) |-> <<i + k, 0>>]
           /\ i' = e
    /\ UNCHANGED <<chat1, chat2, j, spin, pc>>
    /\ UNCHANGED <<eqVars, dupVars, parserVars, renderVars>>

\* lines 389-390: none of the branches applies; the body ends and the while
\* test is evaluated again with every variable of the program as it was
NoMatch ==
    /\ pc = "loop"
    /\ StallCond
    /\ spin' = 1 - spin
    /\ UNCHANGED <<chat1, chat2, i, j, messages, src, pc>>
    /\ UNCHANGED <<eqVars, dupVars, parserVars, renderVars>>

\* lines 392-397 with the tail of chat2 dropped
TailOnlyChat1 ==
    /\ pc = "loop" /\ ~LoopCond
    /\ messages' = messages \o (IF i < len(chat1) THEN SliceFrom(chat1, i) ELSE << >>)
    /\ src' = src \o [k \in 1..(len(chat1) - i) |-> <<i + k, 0>>]
    /\ pc' = "done"
    /\ UNCHANGED <<chat1, chat2, i, j, spin>>
    /\ UNCHANGED <<eqVars, dupVars, parserVars, renderVars>>

\* lines 392-397: the loop has ended; the tails are appended and the Chat returned
TailReturn ==
    /\ pc = "loop" /\ ~LoopCond
    /\ messages' = messages
                    \o (IF i < len(chat1) THEN SliceFrom(chat1, i) ELSE << >>)
                    \o (IF j < len(chat2) THEN SliceFrom(chat2, j) ELSE << >>)
    /\ src' = src \o [k \in 1..(len(chat1) - i) |-> <<i + k, 0>>]
                  \o [k \in 1..(len(chat2) - j) |-> <<0, j + k>>]
    /\ pc' = "done"
    /\ UNCHANGED <<chat1, chat2, i, j, spin>>
    /\ UNCHANGED <<eqVars, dupVars, parserVars, renderVars>>

----------------------------------------------------------------------------
(* The states before each function runs, and the inputs it is run on *)

\* longest pair of lists of text messages combine_chats is run on
MaxLen == 3
\* longest list of one reordered block combine_chats is run on
WinLen == 6
\* longest pair of lists of media messages combine_chats is run on
MediaLen == 2

SeqsUpTo(S, n) == UNION {[1..k -> S] : k \in 0..n}

X  == <<"x">>
Hi == <<"h", "i">>
Bye == <<"b", "y", "e">>
CapA == <<"c", "a", "p", "A">>
CapB == <<"c", "a", "p", "B">>
P1 == <<"d", "/", "a", ".", "j", "p", "g">>
P2 == <<"d", "/", "b", ".", "m", "p", "4">>
DigitChar == <<"1", "2", "3", "4", "5", "6", "7", "8", "9">>

\* text messages of one sender: "hi" three times a day apart, and a "bye"
GeneralMsgs ==
    {TextMessage(0, Some(X), Hi), TextMessage(Day, Some(X), Hi),
     TextMessage(2 * Day, Some(X), Hi), TextMessage(0, Some(X), Bye)}

\* media messages of one sender at one time
MediaMsgs ==
    {MediaMessage(0, Some(X), Media("PHOTO", None, None)),
     MediaMessage(0, Some(X), Media("OTHER", None, None)),
     MediaMessage(0, Some(X), Media("OTHER", Some(P1), None)),
     MediaMessage(0, Some(X), Media("OTHER", None, Some(CapA))),
     MediaMessage(0, Some(X), Media("PHOTO", Some(P1), Some(CapA))),
     MediaMessage(0, Some(X), Media("VIDEO", Some(P2), Some(CapB)))}

\* n messages with n different bodies, a minute apart
Distinct(n) == [k \in 1..n |-> TextMessage(60 * k, Some(X), <<"m", DigitChar[k]>>)]

\* list a with the block of s messages that starts at position lo (1-based)
\* reordered by the permutation p of 0..s-1, every timestamp moved by shift
Reordered(a, lo, s, p, shift) ==
    [k \in 1..Len(a) |->
        LET m == IF k >= lo /\ k < lo + s THEN a[lo + p[k - lo + 1]] ELSE a[k]
        IN  [m EXCEPT !.timestamp = @ + shift]]

\* the permutations of 0..s-1, of one position too
BlockPerms(s) == IF s = 1 THEN {<<0>>} ELSE PermsByN[s]

AlignerStart(a, b) ==
    /\ chat1 = a
    /\ chat2 = b
    /\ i = 0
    /\ j = 0
    /\ messages = << >>
    /\ src = << >>
    /\ spin = 0
    /\ pc = "loop"

InitGeneral ==
    \E a, b \in SeqsUpTo(GeneralMsgs, MaxLen) : AlignerStart(a, b)

InitMedia ==
    \E a, b \in SeqsUpTo(MediaMsgs, MediaLen) : AlignerStart(a, b)

InitWindow ==
    \E n \in 2..WinLen :
      \E lo \in 1..n :
        \E s \in 1..Min(MAX_SCRAMBLED_MESSAGES, n - lo + 1) :
          \E p \in BlockPerms(s) :
            \E shift \in {0, Day} :
                AlignerStart(Distinct(n), Reordered(Distinct(n), lo, s, p, shift))

AlignerIdle ==
    /\ chat1 = << >> /\ chat2 = << >> /\ i = 0 /\ j = 0
    /\ messages = << >> /\ src = << >> /\ spin = 0 /\ pc = "idle"

EqIdle == lhs = None /\ rhs = None /\ eqres = None

DupIdle ==
    /\ chat = << >> /\ dk = 0 /\ seen_text = {} /\ seen_media = {}
    /\ duplicated_text = << >> /\ duplicated_media = << >> /\ dpc = "idle"

ParserIdle ==
    /\ lines = << >> /\ available_files = {} /\ ln = 0 /\ first = TRUE
    /\ version = None /\ senders = {} /\ pmessages = << >>
    /\ ppc = "idle" /\ perr = ""

RenderIdle == rchat = << >> /\ rver = ""

----------------------------------------------------------------------------
(* combine_chats as a state machine: one step per iteration of the while   *)
(* loop, and one for the code after it                                     *)

Init ==
    /\ InitGeneral \/ InitMedia \/ InitWindow
    /\ EqIdle /\ DupIdle /\ ParserIdle /\ RenderIdle

Next ==
    \/ DirectMatch
    \/ WindowMatch
    \/ SkewDrain2
    \/ SkewDrain1
    \/ NoMatch
    \/ TailReturn

Spec == Init /\ [][Next]_vars

\* combine_chats on pairs of lists of text messages
InitText ==
    /\ InitGeneral
    /\ EqIdle /\ DupIdle /\ ParserIdle /\ RenderIdle

\* the interpreter keeps executing the loop: a step that is possible is taken
FairSpec == InitText /\ [][Next]_vars /\ WF_vars(Next)

----------------------------------------------------------------------------
(* == applied to two messages or to two Media values *)

Y == <<"y">>

EqMedia ==
    {Media(t, p, c) : t \in MediaTypes, p \in {None, Some(P1), Some(P2)},
                      c \in {None, Some(CapA), Some(CapB)}}

EqMessages ==
    {TextMessage(t, s, c) : t \in {0, Day, Day + 1}, s \in {None, Some(X), Some(Y)},
                            c \in {Hi, Bye}}
    \cup {SystemMessage(t, s, c) : t \in {0, Day, Day + 1}, s \in {None, Some(X)},
                                   c \in {Hi, Bye}}
    \cup {MediaMessage(t, s, Media(k, None, c)) :
                t \in {0, Day, Day + 1}, s \in {None, Some(X)},
                k \in {"PHOTO", "VIDEO", "OTHER"}, c \in {None, Some(CapA), Some(CapB)}}

EqInit ==
    /\ \/ lhs \in EqMessages /\ rhs \in EqMessages
       \/ lhs \in EqMedia /\ rhs \in EqMedia \cup {TextMessage(0, None, Hi)}
    /\ eqres = None
    /\ AlignerIdle /\ DupIdle /\ ParserIdle /\ RenderIdle

\* lhs == rhs
Compare ==
    /\ IsNone(eqres)
    /\ eqres' = Some(PyEq(lhs, rhs))
    /\ UNCHANGED <<lhs, rhs>>
    /\ UNCHANGED <<alignerVars, dupVars, parserVars, renderVars>>

EqNext == Compare

EqSpec == EqInit /\ [][EqNext]_vars

----------------------------------------------------------------------------
(* check_for_duplicates *)

LENGTH == 15

\* longest chat check_for_duplicates is run on
MaxChat == 4

Ok == <<"o", "k">>
Len15 == <<"f", "i", "f", "t", "e", "e", "n", " ", "c", "h", "a", "r", "s", "!", "!">>
Len16 == <<"s", "i", "x", "t", "e", "e", "n", " ", "c", "h", "a", "r", "s", " ", "!", "!">>
Hello == <<"h", "e", "l", "l", "o", " ", "t", "h", "e", "r", "e", " ", "h", "o", "w", " ", "a", "r", "e", " ", "y", "o", "u">>

\* Counter[k] += 1
CounterInc(counter, k) ==
    [x \in (DOMAIN counter) \cup {k} |->
        IF x = k THEN (IF k \in DOMAIN counter THEN counter[k] ELSE 0) + 1
        ELSE counter[x]]

\* for k in counter.keys(): counter[k] += 1
CounterIncAll(counter) == [x \in DOMAIN counter |-> counter[x] + 1]

DupMsgs ==
    {TextMessage(0, Some(X), c) : c \in {Ok, Len15, Len16, Hello}}
    \cup {MediaMessage(0, Some(X), Media("PHOTO", None, None)),
          MediaMessage(0, Some(X), Media("PHOTO", None, Some(Len15))),
          MediaMessage(0, Some(X), Media("PHOTO", None, Some(Len16))),
          MediaMessage(0, Some(X), Media("OTHER", None, Some(Len16))),
          SystemMessage(0, None, Hello)}

DupInit ==
    /\ chat \in SeqsUpTo(DupMsgs, MaxChat)
    /\ dk = 0
    /\ seen_text = {} /\ seen_media = {}
    /\ duplicated_text = << >> /\ duplicated_media = << >>
    /\ dpc = "scan"
    /\ AlignerIdle /\ EqIdle /\ ParserIdle /\ RenderIdle

\* lines 421-425: the next message is a TextMessage
ScanText ==
    /\ dpc = "scan" /\ dk < len(chat)
    /\ LET m == At(chat, dk)
       IN  /\ isinstance(m, "TextMessage")
           /\ IF Len(m.content) > LENGTH
              THEN /\ duplicated_text' = IF m.content \in seen_text
                                         THEN CounterInc(duplicated_text, m.content)
                                         ELSE duplicated_text
                   /\ seen_text' = seen_text \cup {m.content}
              ELSE UNCHANGED <<duplicated_text, seen_text>>
    /\ dk' = dk + 1
    /\ UNCHANGED <<chat, seen_media, duplicated_media, dpc>>
    /\ UNCHANGED <<alignerVars, eqVars, parserVars, renderVars>>

\* lines 426-430: the next message is a MediaMessage
ScanMedia ==
    /\ dpc = "scan" /\ dk < len(chat)
    /\ LET m == At(chat, dk)
       IN  /\ isinstance(m, "MediaMessage")
           /\ IF ~IsNone(m.content.caption) /\ Len(Val(m.content.caption)) > LENGTH
              THEN /\ duplicated_media' = IF Val(m.content.caption) \in seen_media
                                          THEN CounterInc(duplicated_media, Val(m.content.caption))
                                          ELSE duplicated_media
                   /\ seen_media' = seen_media \cup {Val(m.content.caption)}
              ELSE UNCHANGED <<duplicated_media, seen_media>>
    /\ dk' = dk + 1
    /\ UNCHANGED <<chat, seen_text, duplicated_text, dpc>>
    /\ UNCHANGED <<alignerVars, eqVars, parserVars, renderVars>>

\* lines 420-430: the next message is neither: nothing is recorded
ScanOther ==
    /\ dpc = "scan" /\ dk < len(chat)
    /\ ~isinstance(At(chat, dk), "TextMessage")
    /\ ~isinstance(At(chat, dk), "MediaMessage")
    /\ dk' = dk + 1
    /\ UNCHANGED <<chat, seen_text, seen_media, duplicated_text, duplicated_media, dpc>>
    /\ UNCHANGED <<alignerVars, eqVars, parserVars, renderVars>>

\* lines 431-435 without the two final loops
DupReturnExtra ==
    /\ dpc = "scan" /\ dk = len(chat)
    /\ dpc' = "done"
    /\ UNCHANGED <<chat, dk, seen_text, seen_media, duplicated_text, duplicated_media>>
    /\ UNCHANGED <<alignerVars, eqVars, parserVars, renderVars>>

\* lines 431-435: every counted key gets one more, and the Counters are returned
DupReturn ==
    /\ dpc = "scan" /\ dk = len(chat)
    /\ duplicated_text' = CounterIncAll(duplicated_text)
    /\ duplicated_media' = CounterIncAll(duplicated_media)
    /\ dpc' = "done"
    /\ UNCHANGED <<chat, dk, seen_text, seen_media>>
    /\ UNCHANGED <<alignerVars, eqVars, parserVars, renderVars>>

DupNext ==
    \/ ScanText
    \/ ScanMedia
    \/ ScanOther
    \/ DupReturn

DupSpec == DupInit /\ [][DupNext]_vars

----------------------------------------------------------------------------
(* str methods, on sequences of characters *)

\* the character U+200E (left-to-right mark), as one character
LRM == "<U+200E>"

Whitespace == {" ", "\t", "\n", "\r", "\f"}

Digits == {"0", "1", "2", "3", "4", "5", "6", "7", "8", "9"}

DigitVal(c) ==
    CASE c = "0" -> 0 [] c = "1" -> 1 [] c = "2" -> 2 [] c = "3" -> 3 [] c = "4" -> 4
      [] c = "5" -> 5 [] c = "6" -> 6 [] c = "7" -> 7 [] c = "8" -> 8 [] c = "9" -> 9

UpperCase == <<"A", "B", "C", "D", "E", "F", "G", "H", "I", "J", "K", "L", "M",
               "N", "O", "P", "Q", "R", "S", "T", "U", "V", "W", "X", "Y", "Z">>
LowerCase == <<"a", "b", "c", "d", "e", "f", "g", "h", "i", "j", "k", "l", "m",
               "n", "o", "p", "q", "r", "s", "t", "u", "v", "w", "x", "y", "z">>

\* c.lower()
LowerChar(c) ==
    IF \E k \in 1..26 : UpperCase[k] = c
    THEN LowerCase[CHOOSE k \in 1..26 : UpperCase[k] = c]
    ELSE c

\* s.lower()
Lower(s) == [k \in 1..Len(s) |-> LowerChar(s[k])]

\* s[a:b], with Python's clipping and negative indices
Slice(s, a, b) ==
    LET n  == Len(s)
        a1 == IF a < 0 THEN Max(n + a, 0) ELSE Min(a, n)
        b1 == IF b < 0 THEN Max(n + b, 0) ELSE Min(b, n)
    IN  IF a1 >= b1 THEN << >> ELSE SubSeq(s, a1 + 1, b1)

\* s[a:]
SliceTo(s, a) == Slice(s, a, Len(s))

\* s.startswith(prefix)
StartsWith(s, prefix) ==
    Len(prefix) <= Len(s) /\ SubSeq(s, 1, Len(prefix)) = prefix

\* s.endswith(suffix)
EndsWith(s, suffix) ==
    Len(suffix) <= Len(s) /\ SubSeq(s, Len(s) - Len(suffix) + 1, Len(s)) = suffix

\* the 0-based position of the first occurrence of sub in s at or after k,
\* or -1 if there is none
RECURSIVE Find(_, _, _)
Find(s, sub, k) ==
    IF k + Len(sub) > Len(s) THEN -1
    ELSE IF SubSeq(s, k + 1, k + Len(sub)) = sub THEN k
    ELSE Find(s, sub, k + 1)

\* sub in s
Contains(s, sub) == Find(s, sub, 0) # -1

\* s.index(sub), or -1 where index raises ValueError
Index(s, sub) == Find(s, sub, 0)

\* s.replace(c, "") for a single character c
RemoveChar(s, c) == SelectSeq(s, LAMBDA ch : ch # c)

\* the 1-based position of the first character of s at or after k that is
\* not whitespace, Len(s) + 1 if there is none
RECURSIVE SkipRight(_, _)
SkipRight(s, k) ==
    IF k > Len(s) \/ s[k] \notin Whitespace THEN k ELSE SkipRight(s, k + 1)

\* the 1-based position of the last character of s at or before k that is
\* not whitespace, 0 if there is none
RECURSIVE SkipLeft(_, _)
SkipLeft(s, k) ==
    IF k < 1 \/ s[k] \notin Whitespace THEN k ELSE SkipLeft(s, k - 1)

\* s.strip()
Strip(s) == SubSeq(s, SkipRight(s, 1), SkipLeft(s, Len(s)))

----------------------------------------------------------------------------
(* datetime.strptime *)

\* the pattern of one directive: the ways it can match, in the order the
\* regular expression tries them, each a length and a test of the text
Alt2(c1, c2) == [n |-> 2, first |-> c1, second |-> c2]
Alt1(c1) == [n |-> 1, first |-> c1, second |-> {}]

DirectiveAlts ==
    [d \in {"m", "d", "y", "I", "M", "S", "p"} |->
        CASE d = "m" -> <<Alt2({"1"}, {"0", "1", "2"}), Alt2({"0"}, Digits \ {"0"}),
                          Alt1(Digits \ {"0"})>>
          [] d = "d" -> <<Alt2({"3"}, {"0", "1"}), Alt2({"1", "2"}, Digits),
                          Alt2({"0"}, Digits \ {"0"}), Alt1(Digits \ {"0"}),
                          Alt2({" "}, Digits \ {"0"})>>
          [] d = "y" -> <<Alt2(Digits, Digits)>>
          [] d = "I" -> <<Alt2({"1"}, {"0", "1", "2"}), Alt2({"0"}, Digits \ {"0"}),
                          Alt1(Digits \ {"0"})>>
          [] d = "M" -> <<Alt2({"0", "1", "2", "3", "4", "5"}, Digits), Alt1(Digits)>>
          [] d = "S" -> <<Alt2({"6"}, {"0", "1"}),
                          Alt2({"0", "1", "2", "3", "4", "5"}, Digits), Alt1(Digits)>>
          [] d = "p" -> <<Alt2({"a", "A"}, {"m", "M"}), Alt2({"p", "P"}, {"m", "M"})>>]

\* the text at 1-based position pos of s matches the alternative alt
AltMatches(s, pos, alt) ==
    /\ pos + alt.n - 1 <= Len(s)
    /\ s[pos] \in alt.first
    /\ alt.n = 2 => s[pos + 1] \in alt.second

\* "%m/%d/%y, %I:%M:%S %p" and "%m/%d/%y, %I:%M %p" as lists of items: a
\* directive, a literal character, or a run of whitespace (\s+)
Dir(d) == [t |-> "dir", v |-> d]
Lit(c) == [t |-> "lit", v |-> c]
Spaces == [t |-> "ws", v |-> " "]

FORMAT_OLD ==
    <<Dir("m"), Lit("/"), Dir("d"), Lit("/"), Dir("y"), Lit(","), Spaces,
      Dir("I"), Lit(":"), Dir("M"), Lit(":"), Dir("S"), Spaces, Dir("p")>>

FORMAT_NEW ==
    <<Dir("m"), Lit("/"), Dir("d"), Lit("/"), Dir("y"), Lit(","), Spaces,
      Dir("I"), Lit(":"), Dir("M"), Spaces, Dir("p")>>

\* the number of whitespace characters of s from 1-based position q on
RECURSIVE WhitespaceRun(_, _)
WhitespaceRun(s, q) ==
    IF q <= Len(s) /\ s[q] \in Whitespace THEN 1 + WhitespaceRun(s, q + 1) ELSE 0

\* the matches of the items fmt[k..] against the text of s from 1-based
\* position pos on, in the order in which the backtracking matcher finds
\* them: the alternatives of a directive in their order, the runs of
\* whitespace from the longest to the shortest. end is the position of the
\* last character matched and found lists the text matched by each
\* directive, in the order of the format.
RECURSIVE Matches(_, _, _, _, _)
Matches(s, pos, fmt, k, found) ==
    IF k > Len(fmt) THEN << [end |-> pos - 1, found |-> found] >>
    ELSE CASE fmt[k].t = "lit" ->
                IF pos <= Len(s) /\ s[pos] = fmt[k].v
                THEN Matches(s, pos + 1, fmt, k + 1, found)
                ELSE << >>
           [] fmt[k].t = "ws" ->
                LET RECURSIVE Runs(_)
                    \* with a run of n characters, then with shorter ones
                    Runs(n) ==
                        IF n = 0 THEN << >>
                        ELSE Matches(s, pos + n, fmt, k + 1, found) \o Runs(n - 1)
                IN  Runs(WhitespaceRun(s, pos))
           [] fmt[k].t = "dir" ->
                LET alts == DirectiveAlts[fmt[k].v]
                    RECURSIVE Alts(_)
                    \* with the a-th alternative, then with the later ones
                    Alts(a) ==
                        IF a > Len(alts) THEN << >>
                        ELSE IF ~AltMatches(s, pos, alts[a]) THEN Alts(a + 1)
                        ELSE Matches(s, pos + alts[a].n, fmt, k + 1,
                                     Append(found, SubSeq(s, pos, pos + alts[a].n - 1)))
                             \o Alts(a + 1)
                IN  Alts(1)

\* int() of the text a numeric directive matched
IntOf(txt) ==
    LET t == IF txt[1] = " " THEN SubSeq(txt, 2, Len(txt)) ELSE txt
    IN  IF Len(t) = 1 THEN DigitVal(t[1]) ELSE 10 * DigitVal(t[1]) + DigitVal(t[2])

IsLeap(y) == y % 4 = 0 /\ (y % 100 # 0 \/ y % 400 = 0)

DaysInMonth(y, m) ==
    CASE m \in {1, 3, 5, 7, 8, 10, 12} -> 31
      [] m \in {4, 6, 9, 11} -> 30
      [] m = 2 -> IF IsLeap(y) THEN 29 ELSE 28

\* the year whose start is second 0: the middle of the years a two-digit
\* year can stand for (1969..2068)
EpochYear == 2019

\* number of leap years before year y, counted from year 1
LeapsBefore(y) == (y - 1) \div 4 - (y - 1) \div 100 + (y - 1) \div 400

RECURSIVE DaysBeforeMonth(_, _)
DaysBeforeMonth(y, m) ==
    IF m = 1 THEN 0 ELSE DaysBeforeMonth(y, m - 1) + DaysInMonth(y, m - 1)

\* datetime(year, month, day, hour, minute, second) as seconds from the
\* start of EpochYear
DateTime(year, month, day, hour, minute, second) ==
    ((365 * (year - EpochYear) + (LeapsBefore(year) - LeapsBefore(EpochYear))
        + DaysBeforeMonth(year, month) + (day - 1)) * 24 + hour) * 3600
    + minute * 60 + second

\* datetime.strptime(s, fmt): [ok |-> FALSE] where it raises ValueError
strptime(s, fmt) ==
    IF Matches(s, 1, fmt, 1, << >>) = << >> THEN [ok |-> FALSE, value |-> 0]
    ELSE
      LET r == Matches(s, 1, fmt, 1, << >>)[1]
          withSeconds == Len(r.found) = 7
          month  == IntOf(r.found[1])
          day    == IntOf(r.found[2])
          yy     == IntOf(r.found[3])
          year   == IF yy < 69 THEN 2000 + yy ELSE 1900 + yy
          hour12 == IntOf(r.found[4])
          minute == IntOf(r.found[5])
          second == IF withSeconds THEN IntOf(r.found[6]) ELSE 0
          ampm   == Lower(r.found[Len(r.found)])
          hour   == IF ampm = <<"a", "m">>
                    THEN (IF hour12 = 12 THEN 0 ELSE hour12)
                    ELSE (IF hour12 # 12 THEN hour12 + 12 ELSE hour12)
      IN  IF r.end # Len(s) \/ day > DaysInMonth(year, month) \/ second > 59
          THEN [ok |-> FALSE, value |-> 0]
          ELSE [ok |-> TRUE, value |-> DateTime(year, month, day, hour, minute, second)]

----------------------------------------------------------------------------
(* convert_datetime and to_version *)

DigitChars == <<"0", "1", "2", "3", "4", "5", "6", "7", "8", "9">>

\* str(n) for an integer n >= 0
RECURSIVE StrOfInt(_)
StrOfInt(n) ==
    IF n < 10 THEN <<DigitChars[n + 1]>>
    ELSE Append(StrOfInt(n \div 10), DigitChars[(n % 10) + 1])

\* n as strftime writes %y, %M and %S: two digits
TwoDigits(n) == <<DigitChars[(n \div 10) + 1], DigitChars[(n % 10) + 1]>>

DaysInYear(y) == IF IsLeap(y) THEN 366 ELSE 365

\* the year, and the day in it from 0, of the day that is `days` days after
\* the start of year y
RECURSIVE YearAndDay(_, _)
YearAndDay(days, y) ==
    IF days < 0 THEN YearAndDay(days + DaysInYear(y - 1), y - 1)
    ELSE IF days >= DaysInYear(y) THEN YearAndDay(days - DaysInYear(y), y + 1)
    ELSE [year |-> y, yday |-> days]

\* the month, and the day of the month, of day yday (from 0) of year y, from
\* month m on
RECURSIVE MonthAndDay(_, _, _)
MonthAndDay(yday, y, m) ==
    IF yday >= DaysInMonth(y, m) THEN MonthAndDay(yday - DaysInMonth(y, m), y, m + 1)
    ELSE [month |-> m, day |-> yday + 1]

\* the fields of the datetime dt
Fields(dt) ==
    LET yd == YearAndDay(dt \div Day, EpochYear)
        md == MonthAndDay(yd.yday, yd.year, 1)
    IN  [year |-> yd.year, month |-> md.month, day |-> md.day,
         hour |-> (dt % Day) \div 3600, minute |-> (dt % 3600) \div 60,
         second |-> dt % 60]

\* convert_datetime(dt, version)
convert_datetime(dt, v) ==
    LET f == Fields(dt) IN
    StrOfInt(f.month) \o <<"/">> \o StrOfInt(f.day) \o <<"/">> \o TwoDigits(f.year % 100)
    \o <<",", " ">>
    \o StrOfInt(IF f.hour = 0 THEN 12 ELSE IF f.hour <= 12 THEN f.hour ELSE f.hour - 12)
    \o <<":">> \o TwoDigits(f.minute)
    \o (IF v = "OLD" THEN <<":">> \o TwoDigits(f.second) ELSE << >>)
    \o (IF f.hour < 12 THEN <<" ", "A", "M">> ELSE <<" ", "P", "M">>)

\* str(sender) as an f-string writes it
StrOfSender(sender) == IF IsNone(sender) THEN <<"N", "o", "n", "e">> ELSE Val(sender)

\* TextMessage.to_version
TextMessage_to_version(self, v) ==
    IF v = "OLD"
    THEN <<"[">> \o convert_datetime(self.timestamp, v) \o <<"]", " ">>
             \o StrOfSender(self.sender) \o <<":", " ">> \o self.content
    ELSE convert_datetime(self.timestamp, v) \o <<" ", "-", " ">>
             \o StrOfSender(self.sender) \o <<":", " ">> \o self.content

\* SystemMessage.to_version
SystemMessage_to_version(self, v) ==
    IF v = "OLD"
    THEN <<"[">> \o convert_datetime(self.timestamp, v) \o <<"]", " ">> \o self.content
    ELSE convert_datetime(self.timestamp, v) \o <<" ", "-", " ">> \o self.content

\* m.to_version(version)
Message_to_version(m, v) ==
    CASE isinstance(m, "TextMessage")   -> TextMessage_to_version(m, v)
      [] isinstance(m, "SystemMessage") -> SystemMessage_to_version(m, v)

\* "\n".join(m.to_version(version) for m in list)
RECURSIVE JoinVersions(_, _)
JoinVersions(list, v) ==
    IF list = << >> THEN << >>
    ELSE IF Len(list) = 1 THEN Message_to_version(list[1], v)
    ELSE Message_to_version(list[1], v) \o <<"\n">> \o JoinVersions(Tail(list), v)

\* Chat.to_version(version)
Chat_to_version(list, v) == JoinVersions(list, v)

\* the lines `for line in f` yields for a file of content s: each ends after
\* its "\n", the last one where s ends
RECURSIVE FileLinesOf(_)
FileLinesOf(s) ==
    IF s = << >> THEN << >>
    ELSE IF Find(s, <<"\n">>, 0) = -1 THEN <<s>>
    ELSE <<SubSeq(s, 1, Find(s, <<"\n">>, 0) + 1)>>
            \o FileLinesOf(SubSeq(s, Find(s, <<"\n">>, 0) + 2, Len(s)))

\* the messages of the Chats that are rendered and read back
Al    == <<"A", "l">>
Alice == <<"A", "l", "i", "c", "e">>
T1 == DateTime(2021, 1, 2, 15, 4, 5)
T2 == DateTime(2021, 1, 3, 0, 30, 0)

RoundMsgs ==
    {TextMessage(T1, Some(Al), <<"h", "e", "l", "l", "o">>),
     TextMessage(T2, Some(Alice), <<"h", "i">>),
     TextMessage(T1, Some(Al), <<"n", "u", "l", "l">>),
     TextMessage(T2, Some(Al), <<"T", "h", "i", "s", " ", "m", "e", "s", "s",
                                 "a", "g", "e", " ", "w", "a", "s", " ", "d",
                                 "e", "l", "e", "t", "e", "d", ".">>),
     TextMessage(T1, Some(Alice), <<"h", "i", "\n", "m", "o", "r", "e", " ",
                                    "t", "e", "x", "t">>),
     TextMessage(T1, Some(Alice), <<"h", "i", "\n", "\n", "m", "o", "r", "e",
                                    " ", "t", "e", "x", "t">>),
     TextMessage(T2, Some(Al), <<"h", "i", "\n", "[", "o", "o", "p", "s">>),
     TextMessage(T2, Some(Al), <<"h", "i", "\n", "l", "e", "t", " ", "u",
                                 "s", " ", "m", "e", "e", "t", " ", "a", "r",
                                 "o", "u", "n", "d", " ", "5", " ", "P", "M",
                                 " ", "-", " ", "o", "k">>),
     SystemMessage(T1, None, <<"A", "l", "i", "c", "e", " ", "l", "e", "f",
                               "t">>),
     SystemMessage(T2, Some(Alice), <<"A", "l", "i", "c", "e", " ", "l", "e",
                                      "f", "t">>)}

----------------------------------------------------------------------------
(* Chat.from_file: one step per line of the file, and one for the code     *)
(* after the loop                                                          *)

PHOTO_TYPES ==
    {<<"p", "n", "g">>, <<"a", "p", "n", "g">>, <<"j", "p", "g">>,
     <<"j", "p", "e", "g">>, <<"g", "i", "f">>, <<"w", "e", "b", "p">>,
     <<"a", "v", "i", "f">>, <<"j", "f", "i", "f">>, <<"p", "j", "p", "e", "g">>,
     <<"p", "j", "p">>, <<"s", "v", "g">>, <<"b", "m", "p">>,
     <<"i", "c", "o">>, <<"t", "i", "f">>, <<"t", "i", "f", "f">>}

VIDEO_TYPES ==
    {<<"m", "p", "4">>, <<"a", "v", "i">>, <<"m", "o", "v">>, <<"w", "m", "v">>,
     <<"m", "k", "v">>, <<"w", "e", "b", "m">>, <<"f", "l", "v">>}

AUDIO_TYPES ==
    {<<"o", "p", "u", "s">>, <<"m", "p", "3">>, <<"a", "a", "c">>,
     <<"o", "g", "g">>, <<"w", "a", "v">>}

\* the media type chosen for a file name
MediaTypeOf(file_name) ==
    IF \E ext \in PHOTO_TYPES : EndsWith(Lower(file_name), ext) THEN "PHOTO"
    ELSE IF \E ext \in VIDEO_TYPES : EndsWith(Lower(file_name), ext) THEN "VIDEO"
    ELSE IF \E ext \in AUDIO_TYPES : EndsWith(Lower(file_name), ext) THEN "AUDIO"
    ELSE "OTHER"

\* the argument `directory`
Directory == <<"d">>

\* directory.joinpath(file_name) if file_name in available_files else None
PathOf(file_name) ==
    IF file_name \in available_files THEN Some(Directory \o <<"/">> \o file_name)
    ELSE None

\* lines of an OLD export
OldLines ==
    {\* [1/2/21, 3:04:05 PM] Al: hello
     <<"[", "1", "/", "2", "/", "2", "1", ",", " ", "3", ":", "0", "4", ":",
       "0", "5", " ", "P", "M", "]", " ", "A", "l", ":", " ", "h", "e", "l",
       "l", "o", "\n">>,
     \* [1/2/21, 3:04:06 PM] Al: <attached: pic.jpg>, with a left-to-right mark
     <<"[", "1", "/", "2", "/", "2", "1", ",", " ", "3", ":", "0", "4", ":",
       "0", "6", " ", "P", "M", "]", " ", "A", "l", ":", " ", LRM, "<", "a",
       "t", "t", "a", "c", "h", "e", "d", ":", " ", "p", "i", "c", ".", "j",
       "p", "g", ">", "\n">>,
     \* [1/3/21, 9:00:00 AM] Alice left
     <<"[", "1", "/", "3", "/", "2", "1", ",", " ", "9", ":", "0", "0", ":",
       "0", "0", " ", "A", "M", "]", " ", "A", "l", "i", "c", "e", " ", "l",
       "e", "f", "t", "\n">>,
     \* [1/3/21, 12:30:00 AM] Alice: hi
     <<"[", "1", "/", "3", "/", "2", "1", ",", " ", "1", "2", ":", "3", "0",
       ":", "0", "0", " ", "A", "M", "]", " ", "A", "l", "i", "c", "e", ":",
       " ", "h", "i", "\n">>,
     \* [1/2/21, 3:04:07 PM] Al: This message was deleted.
     <<"[", "1", "/", "2", "/", "2", "1", ",", " ", "3", ":", "0", "4", ":",
       "0", "7", " ", "P", "M", "]", " ", "A", "l", ":", " ", "T", "h", "i",
       "s", " ", "m", "e", "s", "s", "a", "g", "e", " ", "w", "a", "s", " ",
       "d", "e", "l", "e", "t", "e", "d", ".", "\n">>,
     \* [13/2/21, 3:04:05 PM] Al: bad   (there is no month 13)
     <<"[", "1", "3", "/", "2", "/", "2", "1", ",", " ", "3", ":", "0", "4",
       ":", "0", "5", " ", "P", "M", "]", " ", "A", "l", ":", " ", "b", "a",
       "d", "\n">>,
     \* [oops   (there is no "]")
     <<"[", "o", "o", "p", "s", "\n">>}

\* lines of a NEW export
NewLines ==
    {\* 1/2/21, 3:04 PM - Al: hello
     <<"1", "/", "2", "/", "2", "1", ",", " ", "3", ":", "0", "4", " ", "P",
       "M", " ", "-", " ", "A", "l", ":", " ", "h", "e", "l", "l", "o", "\n">>,
     \* 1/2/21, 3:05 PM - Al: <Media omitted>
     <<"1", "/", "2", "/", "2", "1", ",", " ", "3", ":", "0", "5", " ", "P",
       "M", " ", "-", " ", "A", "l", ":", " ", "<", "M", "e", "d", "i", "a",
       " ", "o", "m", "i", "t", "t", "e", "d", ">", "\n">>,
     \* 1/2/21, 3:06 PM - Al: Clip.MP4 (file attached)
     <<"1", "/", "2", "/", "2", "1", ",", " ", "3", ":", "0", "6", " ", "P",
       "M", " ", "-", " ", "A", "l", ":", " ", "C", "l", "i", "p", ".", "M",
       "P", "4", " ", "(", "f", "i", "l", "e", " ", "a", "t", "t", "a", "c",
       "h", "e", "d", ")", "\n">>,
     \* 1/3/21, 9:00 AM - Alice left
     <<"1", "/", "3", "/", "2", "1", ",", " ", "9", ":", "0", "0", " ", "A",
       "M", " ", "-", " ", "A", "l", "i", "c", "e", " ", "l", "e", "f", "t",
       "\n">>,
     \* 1/3/21, 12:30 AM - Alice: hi
     <<"1", "/", "3", "/", "2", "1", ",", " ", "1", "2", ":", "3", "0", " ",
       "A", "M", " ", "-", " ", "A", "l", "i", "c", "e", ":", " ", "h", "i",
       "\n">>,
     \* 1/2/21, 3:07 PM - Al: null
     <<"1", "/", "2", "/", "2", "1", ",", " ", "3", ":", "0", "7", " ", "P",
       "M", " ", "-", " ", "A", "l", ":", " ", "n", "u", "l", "l", "\n">>,
     \* 13/2/21, 3:04 PM - Al: bad   ("M -" at index 15, and no month 13)
     <<"1", "3", "/", "2", "/", "2", "1", ",", " ", "3", ":", "0", "4", " ",
       "P", "M", " ", "-", " ", "A", "l", ":", " ", "b", "a", "d", "\n">>,
     \* so at 12/31/21, 11:59 PM - wow   ("M -" at index 23)
     <<"s", "o", " ", "a", "t", " ", "1", "2", "/", "3", "1", "/", "2", "1",
       ",", " ", "1", "1", ":", "5", "9", " ", "P", "M", " ", "-", " ", "w",
       "o", "w", "\n">>}

\* lines of either export: text with no marker, and a blank line
PlainLines ==
    {<<"m", "o", "r", "e", " ", "t", "e", "x", "t", "\n">>, <<" ", "\n">>}

\* lines of a NEW export whose "M -" is at index 17, 18, 19 and 20, a system
\* line, a line without "M -" and a blank line
MarkerLines ==
    {<<"1", "2", "/", "3", "1", "/", "2", "1", ",", " ", "1", "2", ":", "5",
       "9", " ", "P", "M", " ", "-", " ", "A", "l", ":", " ", "h", "e", "l",
       "l", "o", "\n">>,
     <<"1", "2", "/", "3", "1", "/", "2", "1", ",", " ", " ", "1", "2", ":",
       "5", "9", " ", "P", "M", " ", "-", " ", "A", "l", ":", " ", "h", "e",
       "l", "l", "o", "\n">>,
     <<"1", "2", "/", "3", "1", "/", "2", "1", ",", " ", " ", "1", "2", ":",
       "5", "9", " ", " ", "P", "M", " ", "-", " ", "A", "l", ":", " ", "h",
       "e", "l", "l", "o", "\n">>,
     <<"1", "2", "/", "3", "1", "/", "2", "1", ",", " ", " ", " ", "1", "2",
       ":", "5", "9", " ", " ", "P", "M", " ", "-", " ", "A", "l", ":", " ",
       "h", "e", "l", "l", "o", "\n">>,
     <<"1", "/", "3", "/", "2", "1", ",", " ", "9", ":", "0", "0", " ", "A",
       "M", " ", "-", " ", "A", "l", "i", "c", "e", " ", "l", "e", "f", "t",
       "\n">>,
     <<"m", "o", "r", "e", " ", "t", "e", "x", "t", "\n">>,
     <<" ", "\n">>}

\* line 155: line.replace("\u200e", "").strip()
Clean(raw) == Strip(RemoveChar(raw, LRM))

FileLines == OldLines \cup NewLines \cup PlainLines

\* the texts these lines hand to strptime: line[1:time_end_idx] of a line
\* with a "]", and line[:dash_idx+1] of a line with an "M -"
StampTexts ==
    {Slice(Clean(raw), 1, Index(Clean(raw), <<"]">>)) :
        raw \in {r \in FileLines \cup MarkerLines : Index(Clean(r), <<"]">>) # -1}}
    \cup
    {Slice(Clean(raw), 0, Index(Clean(raw), <<"M", " ", "-">>) + 1) :
        raw \in {r \in FileLines \cup MarkerLines : Index(Clean(r), <<"M", " ", "-">>) # -1}}

\* datetime.strptime(text, "%m/%d/%y, %I:%M:%S %p") and
\* datetime.strptime(text, "%m/%d/%y, %I:%M %p") of each of these texts,
\* evaluated once
StrptimeOld == [text \in StampTexts |-> strptime(text, FORMAT_OLD)]
StrptimeNew == [text \in StampTexts |-> strptime(text, FORMAT_NEW)]

\* the line the loop is at, as line 155 leaves it in the local `line`
ReadLine == Clean(lines[ln + 1])

\* the value of `version` after lines 159-161
LineVersion(line) ==
    IF first THEN (IF line[1] # "[" THEN "NEW" ELSE "OLD") ELSE Val(version)

\* the values `sender` can have after the loop
\*     for s in senders: if text.startswith(s): sender = s; break
\* senders is a set of str, whose iteration order is not fixed
FirstSender(text) ==
    IF \A s \in senders : ~StartsWith(text, s) THEN {None}
    ELSE {Some(s) : s \in {t \in senders : StartsWith(text, t)}}

\* messages after an OLD line that does not start with "["
OldFold(line) ==
    IF pmessages # << >> /\ isinstance(pmessages[Len(pmessages)], "TextMessage")
    THEN [pmessages EXCEPT ![Len(pmessages)].content = @ \o <<"\n">> \o Strip(line)]
    ELSE pmessages

\* NewFold with the line dropped after a media message
NewFoldTextOnly(line) ==
    IF pmessages # << >> /\ isinstance(pmessages[Len(pmessages)], "TextMessage")
    THEN [pmessages EXCEPT ![Len(pmessages)].content = @ \o <<"\n">> \o Strip(line)]
    ELSE pmessages

\* messages after a NEW line that does not start a message
NewFold(line) ==
    IF pmessages = << >> THEN pmessages
    ELSE IF isinstance(pmessages[Len(pmessages)], "TextMessage")
    THEN [pmessages EXCEPT ![Len(pmessages)].content = @ \o <<"\n">> \o Strip(line)]
    ELSE IF isinstance(pmessages[Len(pmessages)], "MediaMessage")
    THEN [pmessages EXCEPT ![Len(pmessages)].content.caption =
             IF IsNone(@) THEN Some(Strip(line))
             ELSE Some(Val(@) \o <<"\n">> \o Strip(line))]
    ELSE pmessages

\* the loop has a line to read
AtLine == ppc = "lines" /\ ln < Len(lines)

\* the line read is not blank, and the file is of dialect v
LineOf(line, v) == Strip(line) # << >> /\ LineVersion(line) = v

\* the line is read and lines 159-161 have run
Consumed(line) ==
    /\ ln' = ln + 1
    /\ first' = FALSE
    /\ version' = Some(LineVersion(line))
    /\ UNCHANGED <<lines, available_files>>

\* a blank line
SkipBlank ==
    /\ AtLine
    /\ Strip(ReadLine) = << >>
    /\ ln' = ln + 1
    /\ UNCHANGED <<lines, available_files, first, version, senders, pmessages, ppc, perr>>
    /\ UNCHANGED <<alignerVars, eqVars, dupVars, renderVars>>

\* OLD: a line that does not start with "["
OldContinuation ==
    /\ AtLine
    /\ LET line == ReadLine
       IN  /\ LineOf(line, "OLD")
           /\ ~StartsWith(line, <<"[">>)
           /\ pmessages' = OldFold(line)
           /\ Consumed(line)
    /\ UNCHANGED <<senders, ppc, perr>>
    /\ UNCHANGED <<alignerVars, eqVars, dupVars, renderVars>>

\* OLD: a line that starts with "[" and has no "]", or whose timestamp
\* strptime rejects: the ValueError leaves from_file
OldFatal ==
    /\ AtLine
    /\ LET line         == ReadLine
           time_end_idx == Index(line, <<"]">>)
       IN  /\ LineOf(line, "OLD")
           /\ StartsWith(line, <<"[">>)
           /\ \/ time_end_idx = -1
              \/ /\ time_end_idx # -1
                 /\ ~StrptimeOld[Slice(line, 1, time_end_idx)].ok
           /\ Consumed(line)
    /\ ppc' = "error"
    /\ perr' = "ValueError"
    /\ UNCHANGED <<senders, pmessages>>
    /\ UNCHANGED <<alignerVars, eqVars, dupVars, renderVars>>

\* OLD: "[timestamp] sender: body"
OldMessage ==
    /\ AtLine
    /\ LET line         == ReadLine
           time_end_idx == Index(line, <<"]">>)
           timestamp    == StrptimeOld[Slice(line, 1, time_end_idx)]
           col_i        == Index(SliceTo(line, time_end_idx + 2), <<":", " ">>)
           colon_idx    == col_i + time_end_idx + 2
           sender       == Slice(line, time_end_idx + 2, colon_idx)
           attached_idx == Index(line, <<"<", "a", "t", "t", "a", "c", "h",
                                         "e", "d", ":", " ">>)
           file_name    == Slice(line, attached_idx + 11, Len(line) - 1)
           body         == Strip(SliceTo(line, colon_idx + 2))
       IN  /\ LineOf(line, "OLD")
           /\ StartsWith(line, <<"[">>)
           /\ time_end_idx # -1
           /\ col_i # -1
           /\ timestamp.ok
           /\ senders' = senders \cup {sender}
           /\ pmessages' =
                IF Contains(line, <<"<", "a", "t", "t", "a", "c", "h", "e",
                                    "d", ":", " ">>)
                THEN Append(pmessages,
                        MediaMessage(timestamp.value, Some(sender),
                            Media(MediaTypeOf(file_name), PathOf(file_name), None)))
                ELSE IF body = <<"T", "h", "i", "s", " ", "m", "e", "s", "s",
                                 "a", "g", "e", " ", "w", "a", "s", " ", "d",
                                 "e", "l", "e", "t", "e", "d", ".">>
                THEN pmessages
                ELSE Append(pmessages, TextMessage(timestamp.value, Some(sender), body))
           /\ Consumed(line)
    /\ UNCHANGED <<ppc, perr>>
    /\ UNCHANGED <<alignerVars, eqVars, dupVars, renderVars>>

\* OLD: "[timestamp] body" with no ": " after the timestamp
OldSystem ==
    /\ AtLine
    /\ LET line         == ReadLine
           time_end_idx == Index(line, <<"]">>)
           timestamp    == StrptimeOld[Slice(line, 1, time_end_idx)]
           rest         == SliceTo(line, time_end_idx + 2)
       IN  /\ LineOf(line, "OLD")
           /\ StartsWith(line, <<"[">>)
           /\ time_end_idx # -1
           /\ Index(rest, <<":", " ">>) = -1
           /\ timestamp.ok
           /\ \E sender \in FirstSender(rest) :
                pmessages' = Append(pmessages,
                    SystemMessage(timestamp.value, sender, Strip(rest)))
           /\ Consumed(line)
    /\ UNCHANGED <<senders, ppc, perr>>
    /\ UNCHANGED <<alignerVars, eqVars, dupVars, renderVars>>

\* NEW: "timestamp - sender: body"
NewMessage ==
    /\ AtLine
    /\ LET line      == ReadLine
           dash_idx  == Index(line, <<"M", " ", "-">>)
           timestamp == StrptimeNew[Slice(line, 0, dash_idx + 1)]
           col_i     == Index(SliceTo(line, dash_idx + 4), <<":", " ">>)
           colon_idx == col_i + dash_idx + 4
           sender    == Slice(line, dash_idx + 4, colon_idx)
           file_name == Slice(line, colon_idx + 2, Len(line) - 16)
           body      == Strip(SliceTo(line, colon_idx + 2))
       IN  /\ LineOf(line, "NEW")
           /\ dash_idx # -1
           /\ dash_idx <= 19
           /\ col_i # -1
           /\ timestamp.ok
           /\ senders' = senders \cup {sender}
           /\ pmessages' =
                IF Contains(line, <<"<", "M", "e", "d", "i", "a", " ", "o",
                                    "m", "i", "t", "t", "e", "d">>)
                THEN Append(pmessages,
                        MediaMessage(timestamp.value, Some(sender),
                                     Media("OTHER", None, None)))
                ELSE IF EndsWith(line, <<"(", "f", "i", "l", "e", " ", "a",
                                         "t", "t", "a", "c", "h", "e", "d",
                                         ")">>)
                THEN Append(pmessages,
                        MediaMessage(timestamp.value, Some(sender),
                            Media(MediaTypeOf(file_name), PathOf(file_name), None)))
                ELSE IF body # <<"n", "u", "l", "l">>
                THEN Append(pmessages, TextMessage(timestamp.value, Some(sender), body))
                ELSE pmessages
           /\ Consumed(line)
    /\ UNCHANGED <<ppc, perr>>
    /\ UNCHANGED <<alignerVars, eqVars, dupVars, renderVars>>

\* NEW: "timestamp - body" with no ": " after the marker
NewSystem ==
    /\ AtLine
    /\ LET line      == ReadLine
           dash_idx  == Index(line, <<"M", " ", "-">>)
           timestamp == StrptimeNew[Slice(line, 0, dash_idx + 1)]
           rest      == SliceTo(line, dash_idx + 3)
       IN  /\ LineOf(line, "NEW")
           /\ dash_idx # -1
           /\ dash_idx <= 19
           /\ Index(SliceTo(line, dash_idx + 4), <<":", " ">>) = -1
           /\ timestamp.ok
           /\ \E sender \in FirstSender(rest) :
                pmessages' = Append(pmessages,
                    SystemMessage(timestamp.value, sender, Strip(rest)))
           /\ Consumed(line)
    /\ UNCHANGED <<senders, ppc, perr>>
    /\ UNCHANGED <<alignerVars, eqVars, dupVars, renderVars>>

\* NEW: the first "M -" is after index 19
NewContinuation ==
    /\ AtLine
    /\ LET line == ReadLine
       IN  /\ LineOf(line, "NEW")
           /\ Index(line, <<"M", " ", "-">>) > 19
           /\ pmessages' = NewFold(line)
           /\ Consumed(line)
    /\ UNCHANGED <<senders, ppc, perr>>
    /\ UNCHANGED <<alignerVars, eqVars, dupVars, renderVars>>

\* NEW: there is no "M -", or strptime rejects the text before it: the
\* ValueError is caught by the outer except
NewNoMatch ==
    /\ AtLine
    /\ LET line     == ReadLine
           dash_idx == Index(line, <<"M", " ", "-">>)
       IN  /\ LineOf(line, "NEW")
           /\ \/ dash_idx = -1
              \/ /\ dash_idx # -1
                 /\ dash_idx <= 19
                 /\ ~StrptimeNew[Slice(line, 0, dash_idx + 1)].ok
           /\ pmessages' = NewFold(line)
           /\ Consumed(line)
    /\ UNCHANGED <<senders, ppc, perr>>
    /\ UNCHANGED <<alignerVars, eqVars, dupVars, renderVars>>

\* lines 286-290 left out: m as it is
NotBackFilled(m) == {m}

\* the values m can have after lines 286-290
BackFilled(m) ==
    IF isinstance(m, "SystemMessage") /\ IsNone(m.sender)
    THEN {[m EXCEPT !.sender = s] : s \in FirstSender(m.content)}
    ELSE {m}

\* the file is read and version is bound: the senders of system messages are
\* filled in and the Chat is returned
ParseReturn ==
    /\ ppc = "lines"
    /\ ln = Len(lines)
    /\ ~IsNone(version)
    /\ \E filled \in [1..Len(pmessages) ->
                        UNION {BackFilled(pmessages[k]) : k \in 1..Len(pmessages)}] :
         /\ \A k \in 1..Len(pmessages) : filled[k] \in BackFilled(pmessages[k])
         /\ pmessages' = filled
    /\ ppc' = "done"
    /\ UNCHANGED <<lines, available_files, ln, first, version, senders, perr>>
    /\ UNCHANGED <<alignerVars, eqVars, dupVars, renderVars>>

\* the file is read and no line was other than blank: version was never
\* assigned, and reading it at line 292 raises
ParseUnbound ==
    /\ ppc = "lines"
    /\ ln = Len(lines)
    /\ IsNone(version)
    /\ ppc' = "error"
    /\ perr' = "UnboundLocalError"
    /\ UNCHANGED <<lines, available_files, ln, first, version, senders, pmessages>>
    /\ UNCHANGED <<alignerVars, eqVars, dupVars, renderVars>>

\* longest file from_file is run on, in lines
MaxLines == 3

\* the file names the directory can hold
FileNames == {<<"p", "i", "c", ".", "j", "p", "g">>, <<"C", "l", "i", "p", ".", "M", "P", "4">>}

ParseInit ==
    /\ lines \in SeqsUpTo(OldLines \cup PlainLines, MaxLines)
                 \cup SeqsUpTo(NewLines \cup PlainLines, MaxLines)
    /\ available_files \in {{}, FileNames}
    /\ ln = 0
    /\ first = TRUE
    /\ version = None
    /\ senders = {}
    /\ pmessages = << >>
    /\ ppc = "lines"
    /\ perr = ""
    /\ AlignerIdle /\ EqIdle /\ DupIdle /\ RenderIdle

ParseNext ==
    \/ SkipBlank
    \/ OldContinuation
    \/ OldFatal
    \/ OldMessage
    \/ OldSystem
    \/ NewMessage
    \/ NewSystem
    \/ NewContinuation
    \/ NewNoMatch
    \/ ParseReturn
    \/ ParseUnbound

ParseSpec == ParseInit /\ [][ParseNext]_vars

----------------------------------------------------------------------------
(* Chat.to_version followed by Chat.from_file of what it returned *)

\* the Chat is rendered and the text is the file from_file is to read
Render ==
    /\ ppc = "render"
    /\ lines' = FileLinesOf(Chat_to_version(rchat, rver))
    /\ ppc' = "lines"
    /\ UNCHANGED <<available_files, ln, first, version, senders, pmessages, perr>>
    /\ UNCHANGED <<alignerVars, eqVars, dupVars, renderVars>>

\* longest Chat rendered, in messages
MaxRound == 2

RoundInit ==
    /\ rchat \in SeqsUpTo(RoundMsgs, MaxRound)
    /\ rver \in {"OLD", "NEW"}
    /\ lines = << >>
    /\ available_files = {}
    /\ ln = 0
    /\ first = TRUE
    /\ version = None
    /\ senders = {}
    /\ pmessages = << >>
    /\ ppc = "render"
    /\ perr = ""
    /\ AlignerIdle /\ EqIdle /\ DupIdle

RoundNext ==
    \/ Render
    \/ SkipBlank
    \/ OldContinuation
    \/ OldFatal
    \/ OldMessage
    \/ OldSystem
    \/ NewMessage
    \/ NewSystem
    \/ NewContinuation
    \/ NewNoMatch
    \/ ParseReturn
    \/ ParseUnbound

RoundSpec == RoundInit /\ [][RoundNext]_vars

----------------------------------------------------------------------------
(* Chat.from_file on NEW files whose "M -" is about index 19 *)

\* longest of these files, in lines
MaxMarkerLines == 2

MarkerInit ==
    /\ lines \in SeqsUpTo(MarkerLines, MaxMarkerLines)
    /\ available_files = {}
    /\ ln = 0
    /\ first = TRUE
    /\ version = None
    /\ senders = {}
    /\ pmessages = << >>
    /\ ppc = "lines"
    /\ perr = ""
    /\ AlignerIdle /\ EqIdle /\ DupIdle /\ RenderIdle

\* the steps of from_file a file that is not OLD can take
MarkerNext ==
    \/ SkipBlank
    \/ NewMessage
    \/ NewSystem
    \/ NewContinuation
    \/ NewNoMatch
    \/ ParseReturn
    \/ ParseUnbound

MarkerSpec == MarkerInit /\ [][MarkerNext]_vars

----------------------------------------------------------------------------
(* Properties of combine_chats *)

\* C1: for any two finite lists combine_chats terminates: from every state of
\* the main loop the loop eventually exits and the merged Chat is returned.
C1_Terminates == <>(pc = "done")

\* C2: the length L of the result satisfies
\* max(len(A), len(B)) <= L <= len(A) + len(B).
C2_LengthBounds ==
    pc = "done" =>
        /\ Max(len(chat1), len(chat2)) <= len(messages)
        /\ len(messages) <= len(chat1) + len(chat2)

\* a result strictly between the two bounds, from two lists of three
C2_Witness ==
    /\ pc = "done"
    /\ len(chat1) = 3 /\ len(chat2) = 3
    /\ len(messages) = 4

\* output message k is message ia of chat1 unmerged, or message ib of chat2
\* unmerged, or stands for the equivalent pair ia, ib
Accounted(k) ==
    LET ia == src[k][1]
        ib == src[k][2]
        m  == messages[k]
    IN  \/ ia # 0 /\ ib = 0 /\ m = chat1[ia]
        \/ ia = 0 /\ ib # 0 /\ m = chat2[ib]
        \/ /\ ia # 0 /\ ib # 0
           /\ PyEq(chat1[ia], chat2[ib])
           /\ m.cls = chat1[ia].cls
           /\ m.timestamp = chat1[ia].timestamp
           /\ m.sender = chat1[ia].sender
           /\ m.cls # "MediaMessage" => m.content = chat1[ia].content
           /\ m.cls = "MediaMessage" =>
                /\ m.content.media_type \in {chat1[ia].content.media_type,
                                             chat2[ib].content.media_type}
                /\ m.content.path \in {chat1[ia].content.path, chat2[ib].content.path}
                /\ m.content.caption \in {chat1[ia].content.caption,
                                          chat2[ib].content.caption}

\* C3: in the result every message of A and every message of B is accounted
\* for exactly once, either emitted unmerged or paired with exactly one
\* equivalent message of the other list whose merged message is emitted.
C3_AllAccountedOnce ==
    pc = "done" =>
        /\ len(src) = len(messages)
        /\ \A k \in 1..len(messages) : Accounted(k)
        /\ \A a \in 1..len(chat1) : Cardinality({k \in 1..len(src) : src[k][1] = a}) = 1
        /\ \A b \in 1..len(chat2) : Cardinality({k \in 1..len(src) : src[k][2] = b}) = 1

\* a result with a merged pair, an unmerged message of A and one of B
C3_Witness ==
    /\ pc = "done"
    /\ \E k \in 1..len(src) : src[k][1] # 0 /\ src[k][2] # 0
    /\ \E k \in 1..len(src) : src[k][1] # 0 /\ src[k][2] = 0
    /\ \E k \in 1..len(src) : src[k][1] = 0 /\ src[k][2] # 0

\* no two adjacent messages of list are equivalent and distinct
NoEquivDistinctAdjacent(list) ==
    \A k \in 1..(len(list) - 1) : PyEq(list[k], list[k + 1]) => list[k] = list[k + 1]

\* C4: for a Chat C with no two equivalent-but-distinct adjacent messages,
\* combine_chats(C, C) has the length of C and holds every message of C
\* exactly once, in C's order; every iteration on the way is a direct match.
C4_SelfMerge ==
    (chat1 = chat2 /\ NoEquivDistinctAdjacent(chat1)) =>
        /\ pc = "loop" => i = j /\ (LoopCond => DirectCond)
        /\ pc = "done" => messages = chat1

\* a list with media and a list of three texts, each merged with itself
C4_Witness ==
    /\ pc = "done"
    /\ chat1 = chat2
    /\ NoEquivDistinctAdjacent(chat1)
    /\ len(chat1) >= 2
    /\ \E k \in 1..len(chat1) :
            isinstance(chat1[k], "MediaMessage") /\ ~IsNone(chat1[k].content.caption)

\* chat2 is chat1 with one block of at most MAX_SCRAMBLED_MESSAGES adjacent
\* messages permuted, up to equivalence at every position
BlockPermuted ==
    /\ len(chat1) = len(chat2)
    /\ \/ len(chat1) = 0
       \/ \E lo \in 0..(len(chat1) - 1) :
            \E s \in 1..Min(MAX_SCRAMBLED_MESSAGES, len(chat1) - lo) :
                /\ \A k \in 0..(len(chat1) - 1) :
                        (k < lo \/ k >= lo + s) => PyEq(At(chat1, k), At(chat2, k))
                /\ CombosFrom(<< >>, 0..(s - 1), lo, lo) # {}

\* chat2 is chat1 with one block of at most MAX_SCRAMBLED_MESSAGES adjacent
\* messages permuted: the same messages in the block, in another order
BlockPermutedExactly ==
    /\ len(chat1) = len(chat2)
    /\ \/ len(chat1) = 0
       \/ \E lo \in 0..(len(chat1) - 1) :
            \E s \in 1..Min(MAX_SCRAMBLED_MESSAGES, len(chat1) - lo) :
                /\ \A k \in 0..(len(chat1) - 1) :
                        (k < lo \/ k >= lo + s) => PyEq(At(chat1, k), At(chat2, k))
                /\ \E p \in BlockPerms(s) :
                        \A k \in 0..(s - 1) : At(chat2, lo + k) = At(chat1, lo + p[k + 1])

\* every message of chat1 is equivalent to exactly one message of chat2 and
\* every message of chat2 to exactly one of chat1
OneToOne ==
    /\ \A a \in 1..len(chat1) :
            Cardinality({b \in 1..len(chat2) : PyEq(chat1[a], chat2[b])}) = 1
    /\ \A b \in 1..len(chat2) :
            Cardinality({a \in 1..len(chat1) : PyEq(chat1[a], chat2[b])}) = 1

AllPaired ==
    /\ len(messages) = len(chat1)
    /\ \A k \in 1..len(src) : src[k][1] # 0 /\ src[k][2] # 0

\* C5 as stated: if B is A with one block of at most 5 adjacent messages
\* permuted, the result pairs every message of A with one of B, has no
\* unmerged message and has the length of A.
C5_WindowBound_AsStated ==
    (pc = "done" /\ BlockPermutedExactly) => AllPaired

\* C5, amended: the same, provided every message of A is equivalent to exactly
\* one message of B and every message of B to exactly one of A; then every
\* iteration is a direct or a window match with the cursors level.
C5_WindowBound ==
    (BlockPermuted /\ OneToOne) =>
        /\ (pc = "loop" /\ LoopCond) => i = j /\ (DirectCond \/ FoundWindow(i, j) # 0)
        /\ pc = "done" => AllPaired

\* a result whose window of 5 moved a message by four positions
C5_Witness ==
    /\ pc = "done"
    /\ BlockPermuted /\ OneToOne
    /\ AllPaired
    /\ \E k \in 1..len(src) : src[k][1] - src[k][2] = MAX_SCRAMBLED_MESSAGES - 1

----------------------------------------------------------------------------
(* Properties of == *)

\* two Media values as the data model describes their equivalence
MediaEquivalent(a, b) ==
    /\ a.media_type = b.media_type \/ a.media_type = "OTHER" \/ b.media_type = "OTHER"
    /\ a.caption = b.caption \/ IsNone(a.caption) \/ IsNone(b.caption)

IsMessage(m) == m.cls \in {"TextMessage", "MediaMessage", "SystemMessage"}

\* C6: two messages are equivalent iff they are of the same variant, their
\* timestamps differ by at most one day (inclusive), their senders are equal
\* and their contents are equal (string equality for Text and System, Media
\* equivalence for Media); messages of different variants never are.
C6_MessageEquivalence ==
    (~IsNone(eqres) /\ IsMessage(lhs) /\ IsMessage(rhs)) =>
        (Val(eqres) <=>
            /\ lhs.cls = rhs.cls
            /\ lhs.timestamp - rhs.timestamp <= Day
            /\ rhs.timestamp - lhs.timestamp <= Day
            /\ lhs.sender = rhs.sender
            /\ IF lhs.cls = "MediaMessage"
               THEN MediaEquivalent(lhs.content, rhs.content)
               ELSE lhs.content = rhs.content)

\* two texts exactly one day apart compare equal
C6_Witness ==
    /\ eqres = Some(TRUE)
    /\ lhs.cls = "TextMessage" /\ rhs.cls = "TextMessage"
    /\ rhs.timestamp - lhs.timestamp = Day

\* C7: two Media values are equivalent iff their kinds match or one is Other,
\* and their captions match or one is absent; the path never influences the
\* result.
C7_MediaEquivalence ==
    (~IsNone(eqres) /\ lhs.cls = "Media" /\ rhs.cls = "Media") =>
        /\ Val(eqres) <=> MediaEquivalent(lhs, rhs)
        /\ \A p, q \in {None, Some(P1), Some(P2)} :
                Media_eq([lhs EXCEPT !.path = p], [rhs EXCEPT !.path = q]) = Val(eqres)

\* Media(Photo, pathA, None) == Media(Other, pathB, None)
C7_Witness ==
    /\ lhs = Media("PHOTO", Some(P1), None)
    /\ rhs = Media("OTHER", Some(P2), None)
    /\ eqres = Some(TRUE)

----------------------------------------------------------------------------
(* Properties of check_for_duplicates *)

\* number of Text messages of the chat whose body is s
TextCount(s) ==
    Cardinality({k \in 1..len(chat) : isinstance(chat[k], "TextMessage") /\ chat[k].content = s})

\* number of Media messages of the chat whose caption is s
CaptionCount(s) ==
    Cardinality({k \in 1..len(chat) :
        isinstance(chat[k], "MediaMessage") /\ chat[k].content.caption = Some(s)})

\* C8: the Counters hold total occurrences: a string longer than 15 that is
\* the body of k >= 2 Text messages has duplicated_text[s] = k; a string that
\* occurs once or is not longer than 15 is no key. The same for captions and
\* duplicated_media, whatever the media kind.
C8_TotalOccurrences ==
    dpc = "done" =>
        \A s \in {Ok, Len15, Len16, Hello} :
            /\ s \in DOMAIN duplicated_text <=> (Len(s) > 15 /\ TextCount(s) >= 2)
            /\ s \in DOMAIN duplicated_text => duplicated_text[s] = TextCount(s)
            /\ s \in DOMAIN duplicated_media <=> (Len(s) > 15 /\ CaptionCount(s) >= 2)
            /\ s \in DOMAIN duplicated_media => duplicated_media[s] = CaptionCount(s)

\* bodies ["hello there how are you", "ok", "hello there how are you"] give
\* duplicated_text = {"hello there how are you": 2}
C8_Witness ==
    /\ dpc = "done"
    /\ len(chat) = 3
    /\ \A k \in 1..3 : isinstance(chat[k], "TextMessage")
    /\ <<chat[1].content, chat[2].content, chat[3].content>> = <<Hello, Ok, Hello>>
    /\ DOMAIN duplicated_text = {Hello}
    /\ duplicated_text[Hello] = 2

----------------------------------------------------------------------------
(* Properties of Chat.from_file *)

\* line, in a file of dialect v, carries the marker of the dialect (a leading
\* "[" closed by a "]" for OLD, an "M -" at index 19 or before for NEW) and
\* strptime rejects its timestamp text
BadStamp(line, v) ==
    \/ /\ v = "OLD"
       /\ StartsWith(line, <<"[">>)
       /\ Index(line, <<"]">>) # -1
       /\ ~StrptimeOld[Slice(line, 1, Index(line, <<"]">>))].ok
    \/ /\ v = "NEW"
       /\ Index(line, <<"M", " ", "-">>) # -1
       /\ Index(line, <<"M", " ", "-">>) <= 19
       /\ ~StrptimeNew[Slice(line, 0, Index(line, <<"M", " ", "-">>) + 1)].ok

\* C9: in either dialect, a step of the parser at a line that carries the
\* marker and whose timestamp text does not parse ends the parse with the
\* error (no Chat is returned) and folds the line into no message.
C9_BadStampAborts ==
    [][(/\ AtLine
        /\ Strip(ReadLine) # << >>
        /\ BadStamp(ReadLine, LineVersion(ReadLine)))
       => (ppc' = "error" /\ pmessages' = pmessages)]_vars

\* C10: the parse ends with an error only at a line that carries the marker
\* and whose timestamp text does not parse; on every other file (an empty
\* one, one of blank lines, an OLD one with a "[" line that has no "]")
\* from_file returns.
C10_OnlyBadStampFatal ==
    ppc = "error" =>
        /\ ln > 0
        /\ ~IsNone(version)
        /\ BadStamp(Clean(lines[ln]), Val(version))

\* the loop is at a line OldSystem handles, whose body is rest
AtOldSystem(rest) ==
    /\ AtLine
    /\ LineOf(ReadLine, "OLD")
    /\ StartsWith(ReadLine, <<"[">>)
    /\ Index(ReadLine, <<"]">>) # -1
    /\ rest = SliceTo(ReadLine, Index(ReadLine, <<"]">>) + 2)
    /\ Index(rest, <<":", " ">>) = -1
    /\ StrptimeOld[Slice(ReadLine, 1, Index(ReadLine, <<"]">>))].ok

\* the loop is at a line NewSystem handles, whose body is rest
AtNewSystem(rest) ==
    /\ AtLine
    /\ LineOf(ReadLine, "NEW")
    /\ Index(ReadLine, <<"M", " ", "-">>) # -1
    /\ Index(ReadLine, <<"M", " ", "-">>) <= 19
    /\ rest = SliceTo(ReadLine, Index(ReadLine, <<"M", " ", "-">>) + 3)
    /\ Index(SliceTo(ReadLine, Index(ReadLine, <<"M", " ", "-">>) + 4), <<":", " ">>) = -1
    /\ StrptimeNew[Slice(ReadLine, 0, Index(ReadLine, <<"M", " ", "-">>) + 1)].ok

\* the texts whose sender the step the parser takes next looks up with
\*     for s in senders: if text.startswith(s): ...; break
\* the body of the system line the loop is at, or, after the loop, the body
\* of every system message that has no sender
Lookups ==
    IF AtLine
    THEN {rest \in {SliceTo(ReadLine, k) : k \in 0..Len(ReadLine)} :
            AtOldSystem(rest) \/ AtNewSystem(rest)}
    ELSE IF ppc = "lines" /\ ~IsNone(version)
    THEN {pmessages[k].content :
            k \in {n \in 1..Len(pmessages) :
                     /\ isinstance(pmessages[n], "SystemMessage")
                     /\ IsNone(pmessages[n].sender)}}
    ELSE {}

\* C11: the parser is a function of the lines and of the directory listing.
\* Every step of it is a function of the state but for the order in which
\* `senders` is iterated, and a sender once assigned is kept, so two parses
\* of one input give the same messages exactly if every lookup of a sender
\* has one outcome.
C11_Deterministic ==
    \A text \in Lookups : Cardinality(FirstSender(text)) = 1


----------------------------------------------------------------------------
(* Properties of Chat.to_version followed by Chat.from_file *)

\* the timestamp t at the resolution of version v: seconds for OLD, minutes
\* for NEW
Truncated(t, v) == IF v = "OLD" THEN t ELSE t - (t % 60)

\* the Chat read back has the messages of the Chat rendered
ReadBack ==
    /\ Len(pmessages) = Len(rchat)
    /\ \A k \in 1..Len(rchat) :
         /\ pmessages[k].sender = rchat[k].sender
         /\ pmessages[k].content = rchat[k].content
         /\ pmessages[k].timestamp = Truncated(rchat[k].timestamp, rver)

\* C12: a Chat of Text and System messages, rendered to a version and read
\* back by from_file, gives a Chat, and its messages have the senders, the
\* contents and (at the resolution of the version) the timestamps of the
\* messages rendered.
C12_RoundTrip ==
    rver # "" => /\ ppc # "error"
                 /\ ppc = "done" => ReadBack


----------------------------------------------------------------------------
(* Properties of the steps of combine_chats *)

\* C13: an iteration of the while loop in which chat1[i] and chat2[j] are
\* not equal, no window matches and no skew test applies appends the one of
\* the two messages that has the earlier timestamp, unmerged, and advances
\* the cursor of its list only.
C13_ForcedProgress ==
    [][(pc = "loop" /\ StallCond) =>
         \/ /\ At(chat1, i).timestamp <= At(chat2, j).timestamp
            /\ messages' = Append(messages, At(chat1, i))
            /\ i' = i + 1 /\ j' = j
         \/ /\ At(chat2, j).timestamp <= At(chat1, i).timestamp
            /\ messages' = Append(messages, At(chat2, j))
            /\ i' = i /\ j' = j + 1]_vars


\* the loop is at an iteration that reaches the skew tests
AtSkewTests ==
    /\ pc = "loop" /\ LoopCond
    /\ ~DirectCond
    /\ FoundWindow(i, j) = 0
    /\ i > 0 /\ j > 0

\* the step drains chat2: its messages from j on are appended as they are,
\* up to the first one equal to chat1[i] or to the end, and i stays
DrainsChat2 ==
    /\ i' = i
    /\ j' > j /\ j' <= len(chat2)
    /\ messages' = messages \o SubSeq(chat2, j + 1, j')
    /\ \A k \in j..(j' - 1) : ~PyEq(At(chat2, k), At(chat1, i))
    /\ j' = len(chat2) \/ PyEq(At(chat2, j'), At(chat1, i))

\* the step drains chat1, likewise
DrainsChat1 ==
    /\ j' = j
    /\ i' > i /\ i' <= len(chat1)
    /\ messages' = messages \o SubSeq(chat1, i + 1, i')
    /\ \A k \in i..(i' - 1) : ~PyEq(At(chat2, j), At(chat1, k))
    /\ i' = len(chat1) \/ PyEq(At(chat2, j), At(chat1, i'))

\* C14 as stated: at the skew tests, the list whose gap is the longer one by
\* more than a day is the one that is drained.
C14_SkewDrain_AsStated ==
    [][AtSkewTests =>
         /\ (diff1 - diff2 > Day) => DrainsChat1
         /\ (diff2 - diff1 > Day) => DrainsChat2]_vars

\* C14: at the skew tests, when the gap of one list is longer than the gap
\* of the other by more than a day, the other list (the one with the short
\* gap) is drained: its messages are appended unmerged and only its cursor
\* advances, up to its first message equal to the current message of the
\* list with the long gap, or to its end.
C14_SkewDrain ==
    [][AtSkewTests =>
         /\ (diff1 - diff2 > Day) => DrainsChat2
         /\ (diff2 - diff1 > Day) => DrainsChat1]_vars

\* a drain of chat2 has just ended at a message equal to chat1[i]
C14_Witness ==
    /\ pc = "loop" /\ LoopCond
    /\ src # << >> /\ src[Len(src)] = <<0, j>>
    /\ DirectCond


\* chat2 is, message for message, equal to the start of chat1, and chat1
\* has text messages only
PrefixOfTexts ==
    /\ Len(chat2) <= Len(chat1)
    /\ \A k \in 1..Len(chat2) : PyEq(chat1[k], chat2[k])
    /\ \A k \in 1..Len(chat1) : isinstance(chat1[k], "TextMessage")

\* C15: once a cursor is at the end of its list, the rest of the other list
\* is appended as it is, in its order, and the result is returned;
\* and when chat2 is, message for message, equal to the start of a chat1 of
\* text messages, the result is chat1.
C15_Tail ==
    /\ [][(pc = "loop" /\ ~LoopCond) =>
            /\ pc' = "done"
            /\ \/ i = len(chat1) /\ messages' = messages \o SliceFrom(chat2, j)
               \/ j = len(chat2) /\ messages' = messages \o SliceFrom(chat1, i)]_vars
    /\ []((pc = "done" /\ PrefixOfTexts) => messages = chat1)

\* chat1 is a message and one two days later, chat2 the first of them only,
\* and the result is returned
C15_Witness ==
    /\ pc = "done"
    /\ Len(chat1) = 2 /\ Len(chat2) = 1
    /\ chat1[2].timestamp = chat1[1].timestamp + 2 * Day
    /\ PrefixOfTexts
    /\ messages = chat1


\* C16: a step from a state where chat1[i] == chat2[j] appends one message
\* and advances both cursors by one; the message has the sender and the
\* timestamp of chat1[i], and when it is a media message its type is not
\* OTHER if either type is not, it has a path if either has one and a caption
\* if either has one, each taken from chat1[i] when chat1[i] has it.
C16_DirectMerge ==
    [][(pc = "loop" /\ LoopCond /\ DirectCond) =>
         LET m1 == At(chat1, i)
             m2 == At(chat2, j)
             m  == messages'[Len(messages')]
         IN  /\ i' = i + 1 /\ j' = j + 1
             /\ Len(messages') = Len(messages) + 1
             /\ SubSeq(messages', 1, Len(messages)) = messages
             /\ m.cls = m1.cls
             /\ m.sender = m1.sender
             /\ m.timestamp = m1.timestamp
             /\ isinstance(m1, "MediaMessage") =>
                  /\ m.content.media_type =
                        IF m1.content.media_type # "OTHER" THEN m1.content.media_type
                        ELSE m2.content.media_type
                  /\ m.content.path =
                        IF ~IsNone(m1.content.path) THEN m1.content.path
                        ELSE m2.content.path
                  /\ m.content.caption =
                        IF ~IsNone(m1.content.caption) THEN m1.content.caption
                        ELSE m2.content.caption
             /\ ~isinstance(m1, "MediaMessage") => m = m1]_vars

\* a media message without a caption has just been merged with an equal one
\* that has a caption, and the merged message has it
C16_Witness ==
    /\ pc = "loop"
    /\ i = 1 /\ j = 1
    /\ isinstance(chat1[1], "MediaMessage")
    /\ IsNone(chat1[1].content.caption)
    /\ ~IsNone(chat2[1].content.caption)
    /\ Len(messages) = 1
    /\ messages[1].content.caption = chat2[1].content.caption


\* both lists have w messages from their cursors on
Fits(w) == i + w <= len(chat1) /\ j + w <= len(chat2)

\* chat1's window taken in the order p is equal, message for message, to
\* chat2's window
Pairs(w, p) == \A k \in 1..w : PyEq(At(chat1, i + p[k]), At(chat2, j + k - 1))

\* w is the first size, and p the first permutation of that size, that pairs
\* the two windows
FirstPairing(w, p) ==
    /\ Fits(w)
    /\ Pairs(w, p)
    /\ \A q \in PermsByN[w] : Pairs(w, q) => (p = q \/ LexLess(p, q))
    /\ \A v \in 2..(w - 1) : \A q \in PermsByN[v] : ~Pairs(v, q)

\* C17: when chat1[i] and chat2[j] are not equal, the window sizes 2 to 5
\* that fit both lists are tried in increasing order, and at the first size
\* w and the first permutation that pair the two windows the step appends
\* w merged messages, in the order of chat2's window, and advances both
\* cursors by w.
C17_WindowMatch ==
    [][(pc = "loop" /\ LoopCond /\ ~DirectCond) =>
         \A w \in 2..MAX_SCRAMBLED_MESSAGES :
           Fits(w) =>
             \A p \in PermsByN[w] :
               FirstPairing(w, p) =>
                 /\ i' = i + w /\ j' = j + w
                 /\ Len(messages') = Len(messages) + w
                 /\ SubSeq(messages', 1, Len(messages)) = messages
                 /\ \A k \in 1..w :
                      messages'[Len(messages) + k] =
                          Merge(At(chat1, i + p[k]), At(chat2, j + k - 1))]_vars

\* a window of three was matched: chat2 had chat1's first three messages
\* with the first one moved to the end
C17_Witness ==
    /\ i = 3 /\ j = 3
    /\ src = << <<2, 1>>, <<3, 2>>, <<1, 3>> >>
    /\ messages = <<chat1[2], chat1[3], chat1[1]>>


\* C18: every step of combine_chats leaves the messages already appended
\* where they are and only appends to them, moves no cursor back, and leaves
\* the two lists it was given as they were.
C18_ForwardScan ==
    [][pc = "loop" =>
         /\ Len(messages') >= Len(messages)
         /\ SubSeq(messages', 1, Len(messages)) = messages
         /\ i' >= i /\ j' >= j
         /\ chat1' = chat1 /\ chat2' = chat2]_vars

\* two media messages were merged into a message that is neither of them, a
\* further message was appended after it, and the result is returned
C18_Witness ==
    /\ pc = "done"
    /\ Len(messages) >= 2
    /\ src[1] = <<1, 1>>
    /\ messages[1] # chat1[1]
    /\ messages[1] # chat2[1]


----------------------------------------------------------------------------
(* Properties of the steps of Chat.from_file *)

\* the line read is a continuation line of an OLD file
AtOldContinuation ==
    AtLine /\ LineOf(ReadLine, "OLD") /\ ~StartsWith(ReadLine, <<"[">>)

\* the line read is a line of a NEW file with no "M -" in its first 20
\* characters
AtNewContinuation ==
    /\ AtLine /\ LineOf(ReadLine, "NEW")
    /\ \/ Index(ReadLine, <<"M", " ", "-">>) = -1
       \/ Index(ReadLine, <<"M", " ", "-">>) > 19

\* C19: a continuation line appends no message and leaves every message but
\* the last as it is. In an OLD file it adds "\n" and the line to the body
\* of a last message that is a text message, and does nothing otherwise. In
\* a NEW file it does the same for a text message, makes the line the
\* caption of a last message that is a media message without one, adds "\n"
\* and the line to the caption it has otherwise, and does nothing with a
\* system message or with no message.
C19_Continuation ==
    [][(AtOldContinuation \/ AtNewContinuation) =>
         /\ Len(pmessages') = Len(pmessages)
         /\ \A k \in 1..(Len(pmessages) - 1) : pmessages'[k] = pmessages[k]
         /\ pmessages # << >> =>
              LET last == pmessages[Len(pmessages)]
                  now  == pmessages'[Len(pmessages)]
              IN  IF isinstance(last, "TextMessage")
                  THEN now = [last EXCEPT !.content = @ \o <<"\n">> \o ReadLine]
                  ELSE IF isinstance(last, "MediaMessage") /\ AtNewContinuation
                  THEN now = [last EXCEPT !.content.caption =
                                 IF IsNone(@) THEN Some(ReadLine)
                                 ELSE Some(Val(@) \o <<"\n">> \o ReadLine)]
                  ELSE now = last]_vars

\* a media message of a NEW file was followed by two continuation lines
C19_Witness ==
    /\ ppc = "lines"
    /\ version = Some("NEW")
    /\ ln = 3
    /\ Len(pmessages) = 1
    /\ isinstance(pmessages[1], "MediaMessage")
    /\ pmessages[1].content.caption =
         Some(<<"m", "o", "r", "e", " ", "t", "e", "x", "t", "\n",
                "m", "o", "r", "e", " ", "t", "e", "x", "t">>)


\* C20: in the Chat from_file returns no system message is without a sender
\* while a sender registered during the parse is a prefix of its body; and
\* the pass over the messages that ends the parse leaves as they are the
\* system messages that had a sender and all text and media messages, and
\* changes nothing but the sender of the others.
C20_BackFill ==
    /\ [](ppc = "done" =>
            \A k \in 1..Len(pmessages) :
               (isinstance(pmessages[k], "SystemMessage") /\ IsNone(pmessages[k].sender))
                  => \A s \in senders : ~StartsWith(pmessages[k].content, s))
    /\ [][(ppc = "lines" /\ ppc' = "done") =>
            /\ Len(pmessages') = Len(pmessages)
            /\ \A k \in 1..Len(pmessages) :
                 IF isinstance(pmessages[k], "SystemMessage") /\ IsNone(pmessages[k].sender)
                 THEN [pmessages'[k] EXCEPT !.sender = None] = pmessages[k]
                 ELSE pmessages'[k] = pmessages[k]]_vars

\* the first message of the Chat returned is a system message with a sender:
\* the sender was registered by a later line
C20_Witness ==
    /\ ppc = "done"
    /\ Len(pmessages) >= 2
    /\ isinstance(pmessages[1], "SystemMessage")
    /\ ~IsNone(pmessages[1].sender)
    /\ StartsWith(pmessages[1].content, Val(pmessages[1].sender))


\* the first "M -" of the line read starts within its first n characters
MarkerWithin(n) ==
    /\ Index(ReadLine, <<"M", " ", "-">>) # -1
    /\ Index(ReadLine, <<"M", " ", "-">>) + 1 <= n

\* C21: a line of a NEW file appends a message only if its first "M -"
\* starts within the first 19 characters of the line; a line whose first
\* "M -" starts after them, or that has none, registers no sender and is
\* folded into the last message as a continuation.
C21_MarkerBound ==
    [][(AtLine /\ LineOf(ReadLine, "NEW")) =>
         /\ Len(pmessages') > Len(pmessages) => MarkerWithin(19)
         /\ ~MarkerWithin(19) =>
              /\ pmessages' = NewFold(ReadLine)
              /\ senders' = senders]_vars

====
